---- MODULE Spec2Model ----
(***************************************************************************)
(* Model of weekly_report.py: the Saturday gate of main(), the week window *)
(* and data shaping of weekly_report_with_plot(), and the attachment loop  *)
(* and SMTP submission of send_email_with_reports().                       *)
(*                                                                         *)
(* Dates are day numbers; day 0 is a Monday, so date.weekday() is d % 7.   *)
(* Strings that the code takes apart (display names, file paths) are       *)
(* sequences of tokens, so that str.replace and os.path.basename are       *)
(* computed and not assumed.  None and the empty string are both <<>>,     *)
(* the two values that "if f" of line 152 rejects.                         *)
(***************************************************************************)
EXTENDS Integers, Sequences, FiniteSets, TLC

VARIABLES
    today,          \* datetime.now(tz).date(), as a day number
    pc,             \* position of the running process / call
    runs,           \* number of times the script has been started
    ticker_symbol,  \* argument of a direct weekly_report_with_plot call
    df,             \* provider response of that call
    ret,            \* its return value
    figure,         \* the figure that call saved
    file1, file2,   \* main(): results of the two report calls
    files,          \* main(): collected paths / argument of the mailer
    requests,       \* yf.download calls of this process, oldest first
    written,        \* paths this process saved a figure to
    log,            \* standard output of this process
    smtp,           \* SMTP connections this process opened
    outbox,         \* messages accepted by the mail server, oldest first
    disk,           \* paths that exist on disk
    history         \* outcome of every finished run, oldest first

vars == <<today, pc, runs, ticker_symbol, df, ret, figure, file1, file2,
          files, requests, written, log, smtp, outbox, disk, history>>

----------------------------------------------------------------------------
(* Bounds of the model *)

MaxDay == 20
MaxRows == 3
MaxFetched == 2
MaxRuns == 2
MaxFiles == 2

(* Constants of the program *)

DaysPerWeek == 7
TargetWeekday == 5

Closes == {1, 2}

Days == (2 * DaysPerWeek)..MaxDay

----------------------------------------------------------------------------
(* Configuration, lines 13-24 *)

Tickers == <<"GD.AT", "HELPE.AT">>

TICKER_MAP ==
    [t \in {"GD.AT", "HELPE.AT"} |->
        IF t = "GD.AT" THEN <<"Γενικός", " ", "Δείκτης">>
                       ELSE <<"Ελληνικά", " ", "Πετρέλαια">>]

GREEK_DAYS ==
    (0 :> "Δευτέρα") @@ (1 :> "Τρίτη") @@ (2 :> "Τετάρτη") @@
    (3 :> "Πέμπτη") @@ (4 :> "Παρασκευή")

day_order == <<"Δευτέρα", "Τρίτη", "Τετάρτη", "Πέμπτη", "Παρασκευή">>

None == <<>>

Weekday(d) == d % DaysPerWeek

greek_day_name(dt) ==
    IF Weekday(dt) \in DOMAIN GREEK_DAYS THEN GREEK_DAYS[Weekday(dt)] ELSE ""

----------------------------------------------------------------------------
(* Sequence helpers *)

Range(s) == {s[i] : i \in DOMAIN s}

RECURSIVE Filter(_, _)
Filter(s, keep) ==
    IF s = <<>> THEN <<>>
    ELSE (IF Head(s) \in keep THEN <<Head(s)>> ELSE <<>>) \o Filter(Tail(s), keep)

----------------------------------------------------------------------------
(* Paths *)

RECURSIVE Replace(_, _, _)
Replace(s, old, new) ==
    IF s = <<>> THEN <<>>
    ELSE <<IF Head(s) = old THEN new ELSE Head(s)>> \o Replace(Tail(s), old, new)

Filename(t) ==
    <<"weekly_reports", "/">> \o Replace(TICKER_MAP[t], " ", "_") \o <<"_report.jpg">>

RECURSIVE Basename(_)
Basename(path) ==
    IF path = <<>> THEN <<>>
    ELSE IF "/" \in Range(Tail(path)) THEN Basename(Tail(path))
    ELSE IF Head(path) = "/" THEN Tail(path)
    ELSE path

----------------------------------------------------------------------------
(* weekly_report_with_plot: the week window, lines 35-42 *)

Window(now) ==
    LET last_monday == now - (Weekday(now) + DaysPerWeek)
        last_saturday == last_monday + 6
    IN  [start |-> last_monday, end |-> last_saturday + 1]

(* yf.download, line 45: what the provider may answer to a request for the  *)
(* daily rows of [start, end): at most n rows, one per date of the window,  *)
(* in any order.                                                            *)
Responses(start, end, n) ==
    LET Row == [date : start..(end - 1), close : Closes]
    IN  UNION {{s \in [1..k -> Row] :
                    \A i, j \in 1..k : i # j => s[i].date # s[j].date} : k \in 0..n}

(* Seeded fault: the empty check never fires *)
DfEmpty_never(data) == FALSE

DfEmpty(data) == Len(data) = 0

(* lines 50-56 *)
Rows(data) ==
    [i \in 1..Len(data) |->
        [date |-> data[i].date, day |-> greek_day_name(data[i].date),
         close |-> data[i].close]]

(* DataFrame.sort_values, line 58: ascending by date, stable *)
RECURSIVE InsertByDate(_, _)
InsertByDate(r, s) ==
    IF s = <<>> THEN <<r>>
    ELSE IF s[Len(s)].date <= r.date THEN Append(s, r)
    ELSE Append(InsertByDate(r, SubSeq(s, 1, Len(s) - 1)), s[Len(s)])

(* Seeded fault: the rows are left in the provider's order *)
SortValues_unsorted(rows) == rows

RECURSIVE SortValues(_)
SortValues(rows) ==
    IF rows = <<>> THEN <<>>
    ELSE InsertByDate(rows[Len(rows)], SortValues(SubSeq(rows, 1, Len(rows) - 1)))

(* line 60 *)
PresentDays(part) == Filter(day_order, {part[i].day : i \in DOMAIN part})

(* line 61: Series.reindex refuses an index with duplicate labels *)
IndexIsUnique(part) ==
    \A i, j \in DOMAIN part : i # j => part[i].day # part[j].day

CloseRow(part, present_days) ==
    [k \in 1..Len(present_days) |->
        LET i == CHOOSE i \in DOMAIN part : part[i].day = present_days[k]
        IN  part[i].close]

(* The calls that raise between lines 58 and 113: sort_values on a frame    *)
(* without the date column (no rows), reindex on duplicate labels (line 61),*)
(* and Axes.table, which divides by the number of columns (line 79).        *)
ShapeRaises(part) ==
    \/ part = <<>>
    \/ ~IndexIsUnique(part)
    \/ PresentDays(part) = <<>>

NoFigure == [columns |-> <<>>, cells |-> <<>>, last_close |-> 0,
             labels |-> <<>>, points |-> <<>>]

(* lines 58-106: the table, the title figure and the chart *)
Figure(part) ==
    LET present_days == PresentDays(part)
    IN  [columns    |-> present_days,
         cells      |-> CloseRow(part, present_days),
         last_close |-> part[Len(part)].close,
         labels     |-> [i \in 1..Len(part) |-> [date |-> part[i].date, day |-> part[i].day]],
         points     |-> [i \in 1..Len(part) |-> part[i].close]]

Line(tag, about) == [tag |-> tag, about |-> about]

(* The whole call, given the clock and the provider's answer.  *)
weekly_report_with_plot(t, now, data) ==
    LET w == Window(now)
        request == [ticker |-> t, start |-> w.start, end |-> w.end,
                    empty |-> Len(data) = 0]
        part == SortValues(Rows(data))
    IN  IF DfEmpty(data)
        THEN [request |-> request, raised |-> FALSE, ret |-> None,
              figure |-> NoFigure, saved |-> {},
              out |-> <<Line("no data", TICKER_MAP[t])>>]
        ELSE IF ShapeRaises(part)
        THEN [request |-> request, raised |-> TRUE, ret |-> None,
              figure |-> NoFigure, saved |-> {}, out |-> <<>>]
        ELSE [request |-> request, raised |-> FALSE, ret |-> Filename(t),
              figure |-> Figure(part), saved |-> {Filename(t)}, out |-> <<>>]

----------------------------------------------------------------------------
(* send_email_with_reports, lines 118-142 *)

(* Seeded fault: the loop stops at the first missing path *)
RECURSIVE Attachments_untilMissing(_, _)
Attachments_untilMissing(paths, existing) ==
    IF paths = <<>> \/ Head(paths) \notin existing THEN <<>>
    ELSE <<Basename(Head(paths))>> \o Attachments_untilMissing(Tail(paths), existing)

(* lines 126-134: the attachments and the warnings of the loop *)
RECURSIVE Attachments(_, _)
Attachments(paths, existing) ==
    IF paths = <<>> THEN <<>>
    ELSE (IF Head(paths) \in existing THEN <<Basename(Head(paths))>> ELSE <<>>)
         \o Attachments(Tail(paths), existing)

RECURSIVE Warnings(_, _)
Warnings(paths, existing) ==
    IF paths = <<>> THEN <<>>
    ELSE (IF Head(paths) \in existing THEN <<>>
          ELSE <<Line("file not found", Head(paths))>>)
         \o Warnings(Tail(paths), existing)

Message(paths, existing) ==
    [to |-> "RECEIVER_EMAIL", subject |-> "Εβδομαδιαία Reports",
     attachments |-> Attachments(paths, existing)]

(* Seeded fault: a message without attachments is not submitted *)
Deliver_ifAttached(box, msg) ==
    IF msg.attachments = <<>> THEN box ELSE Append(box, msg)

(* lines 136-140: connect, STARTTLS, login, sendmail, quit *)
Deliver(box, msg) == Append(box, msg)

send_email_with_reports(paths) ==
    /\ smtp' = smtp + 1
    /\ outbox' = Deliver(outbox, Message(paths, disk))
    /\ log' = log \o Warnings(paths, disk) \o <<Line("email sent", <<>>)>>

----------------------------------------------------------------------------
(* main(), lines 144-156, one process per start of the script *)

(* Seeded fault: the gate opens on the whole weekend *)
IsTargetDay_weekend(now) == Weekday(now) >= TargetWeekday

IsTargetDay(now) == Weekday(now) = TargetWeekday

(* Seeded faults: the guard of the send is dropped; the guard remembers an  *)
(* earlier send                                                             *)
FilesTruthy_always(fs) == TRUE

FilesTruthy_once(fs) == fs # <<>> /\ outbox = <<>>

(* line 153: "if files" *)
FilesTruthy(fs) == fs # <<>>

(* line 152 *)
Collected(f1, f2) ==
    (IF f1 # None THEN <<f1>> ELSE <<>>) \o (IF f2 # None THEN <<f2>> ELSE <<>>)

Outcome(reqs, fs, emails, saved, raised) ==
    [requests |-> reqs, files |-> fs, emails |-> emails, saved |-> saved,
     raised |-> raised]

Init ==
    /\ today \in Days
    /\ pc = "idle"
    /\ runs = 0
    /\ ticker_symbol = ""
    /\ df = <<>>
    /\ ret = None
    /\ figure = NoFigure
    /\ file1 = None
    /\ file2 = None
    /\ files = <<>>
    /\ requests = <<>>
    /\ written = {}
    /\ log = <<>>
    /\ smtp = 0
    /\ outbox = <<>>
    /\ disk = {}
    /\ history = <<>>

(* The scheduler starts the script: a new process, with nothing but the    *)
(* disk and the mail server carried over from earlier runs.                *)
Launch ==
    /\ pc \in {"idle", "done", "raised"}
    /\ runs < MaxRuns
    /\ runs' = runs + 1
    /\ pc' = "main"
    /\ file1' = None
    /\ file2' = None
    /\ files' = <<>>
    /\ requests' = <<>>
    /\ written' = {}
    /\ log' = <<>>
    /\ smtp' = 0
    /\ UNCHANGED <<today, ticker_symbol, df, ret, figure, outbox, disk, history>>

(* lines 145-149 and 155-156 *)
Gate ==
    /\ pc = "main"
    /\ IF IsTargetDay(today)
       THEN /\ log' = Append(log, Line("creating reports", <<>>))
            /\ pc' = "report1"
            /\ UNCHANGED history
       ELSE /\ log' = Append(log, Line("not saturday", <<>>))
            /\ pc' = "done"
            /\ history' = Append(history,
                                 Outcome(requests, files, smtp, written, FALSE))
    /\ UNCHANGED <<today, runs, ticker_symbol, df, ret, figure, file1, file2,
                   files, requests, written, smtp, outbox, disk>>

(* What a call of weekly_report_with_plot leaves behind in its process *)
Effects(r) ==
    /\ requests' = Append(requests, r.request)
    /\ written' = written \cup r.saved
    /\ disk' = disk \cup r.saved
    /\ log' = log \o r.out

(* line 150 *)
Report1 ==
    /\ pc = "report1"
    /\ \E data \in Responses(Window(today).start, Window(today).end, MaxFetched) :
          LET r == weekly_report_with_plot(Tickers[1], today, data)
          IN  /\ Effects(r)
              /\ file1' = r.ret
              /\ pc' = IF r.raised THEN "raised" ELSE "report2"
              /\ history' = IF r.raised
                            THEN Append(history,
                                        Outcome(requests', files, smtp, written', TRUE))
                            ELSE history
    /\ UNCHANGED <<today, runs, ticker_symbol, df, ret, figure, file2, files,
                   smtp, outbox>>

(* line 151 *)
Report2 ==
    /\ pc = "report2"
    /\ \E data \in Responses(Window(today).start, Window(today).end, MaxFetched) :
          LET r == weekly_report_with_plot(Tickers[2], today, data)
          IN  /\ Effects(r)
              /\ file2' = r.ret
              /\ pc' = IF r.raised THEN "raised" ELSE "collect"
              /\ history' = IF r.raised
                            THEN Append(history,
                                        Outcome(requests', files, smtp, written', TRUE))
                            ELSE history
    /\ UNCHANGED <<today, runs, ticker_symbol, df, ret, figure, file1, files,
                   smtp, outbox>>

(* lines 152-154 *)
Collect ==
    /\ pc = "collect"
    /\ files' = Collected(file1, file2)
    /\ IF FilesTruthy(files')
       THEN send_email_with_reports(files')
       ELSE UNCHANGED <<smtp, outbox, log>>
    /\ pc' = "done"
    /\ history' = Append(history, Outcome(requests, files', smtp', written, FALSE))
    /\ UNCHANGED <<today, runs, ticker_symbol, df, ret, figure, file1, file2,
                   requests, written, disk>>

(* Something else removes a report file from the output directory *)
RemoveFile ==
    /\ \E p \in disk : disk' = disk \ {p}
    /\ UNCHANGED <<today, pc, runs, ticker_symbol, df, ret, figure, file1, file2,
                   files, requests, written, log, smtp, outbox, history>>

Next == Launch \/ Gate \/ Report1 \/ Report2 \/ Collect \/ RemoveFile

Spec == Init /\ [][Next]_vars

----------------------------------------------------------------------------
(* weekly_report_with_plot called on its own, at any clock reading *)

InitReport ==
    /\ today \in Days
    /\ ticker_symbol \in {Tickers[i] : i \in DOMAIN Tickers}
    /\ pc = "call"
    /\ runs = 0
    /\ df = <<>>
    /\ ret = None
    /\ figure = NoFigure
    /\ file1 = None
    /\ file2 = None
    /\ files = <<>>
    /\ requests = <<>>
    /\ written = {}
    /\ log = <<>>
    /\ smtp = 0
    /\ outbox = <<>>
    /\ disk = {}
    /\ history = <<>>

ReportCall ==
    /\ pc = "call"
    /\ \E data \in Responses(Window(today).start, Window(today).end, MaxRows) :
          LET r == weekly_report_with_plot(ticker_symbol, today, data)
          IN  /\ Effects(r)
              /\ df' = data
              /\ ret' = r.ret
              /\ figure' = r.figure
              /\ pc' = IF r.raised THEN "raised" ELSE "returned"
    /\ UNCHANGED <<today, runs, ticker_symbol, file1, file2, files, smtp, outbox,
                   history>>

NextReport == ReportCall

SpecReport == InitReport /\ [][NextReport]_vars

----------------------------------------------------------------------------
(* send_email_with_reports called on its own, with any list of paths *)

MailPaths == {Filename(Tickers[i]) : i \in DOMAIN Tickers} \cup {<<"chart.jpg">>}

InitMail ==
    /\ today \in {MaxDay}
    /\ files \in UNION {[1..k -> MailPaths] : k \in 0..MaxFiles}
    /\ disk \in SUBSET MailPaths
    /\ pc = "call"
    /\ runs = 0
    /\ ticker_symbol = ""
    /\ df = <<>>
    /\ ret = None
    /\ figure = NoFigure
    /\ file1 = None
    /\ file2 = None
    /\ requests = <<>>
    /\ written = {}
    /\ log = <<>>
    /\ smtp = 0
    /\ outbox = <<>>
    /\ history = <<>>

MailCall ==
    /\ pc = "call"
    /\ send_email_with_reports(files)
    /\ pc' = "returned"
    /\ UNCHANGED <<today, runs, ticker_symbol, df, ret, figure, file1, file2,
                   files, requests, written, disk, history>>

NextMail == MailCall

SpecMail == InitMail /\ [][NextMail]_vars

----------------------------------------------------------------------------
(* Properties of main(), checked under Spec *)

Saturday == Weekday(today) = 5

ReportNames == {Filename(Tickers[i]) : i \in DOMAIN Tickers}

NoDataLogged(t) == Line("no data", TICKER_MAP[t]) \in Range(log)

(* C1: on any day of the week other than Saturday a run fetches nothing,   *)
(* saves no report, opens no mail connection and sends no message; all it  *)
(* does is print the "not Saturday" line and finish.                       *)
C1_NoActionOffTargetDay ==
    ~Saturday =>
        /\ requests = <<>>
        /\ written = {}
        /\ disk = {}
        /\ smtp = 0
        /\ outbox = <<>>
        /\ pc \in {"idle", "main", "done"}
        /\ Range(log) \subseteq {Line("not saturday", <<>>)}
        /\ \A i \in DOMAIN history :
              history[i] = Outcome(<<>>, <<>>, 0, {}, FALSE)

C1_Witness ==
    /\ ~Saturday
    /\ pc = "done"
    /\ runs = 2
    /\ log = <<Line("not saturday", <<>>)>>
    /\ Len(history) = 2

(* C5: a ticker whose provider response is empty gets no output file       *)
(* (None), no report file is saved for it, a warning is printed, the call  *)
(* does not raise and main() goes on to the next ticker; with the first    *)
(* ticker empty and the second rendered, the second file is the one the    *)
(* mailer is called with.                                                  *)
C5_EmptyResponseSkipsTicker ==
    /\ \A k \in DOMAIN requests :
          requests[k].empty =>
              /\ requests[k].ticker = Tickers[k]
              /\ IF k = 1 THEN file1 = None ELSE file2 = None
              /\ Filename(Tickers[k]) \notin written
              /\ NoDataLogged(Tickers[k])
              /\ ~(pc = "raised" /\ Len(requests) = k)
              /\ (k = 1 /\ Len(requests) = 1) => pc = "report2"
    /\ (Len(requests) = 2 /\ requests[1].empty /\ ~requests[2].empty /\ pc # "raised") =>
          /\ file2 = Filename(Tickers[2])
          /\ file2 \in written
          /\ pc \in {"collect", "done"}
          /\ pc = "done" =>
                /\ files = <<file2>>
                /\ smtp = 1
                /\ outbox # <<>>
                /\ outbox[Len(outbox)].attachments \in
                       {<<>>, <<<<"Ελληνικά", "_", "Πετρέλαια", "_report.jpg">>>>}
                /\ file2 \in disk =>
                       outbox[Len(outbox)].attachments # <<>>

C5_Witness ==
    /\ pc = "done"
    /\ Len(requests) = 2
    /\ requests[1].empty
    /\ ~requests[2].empty
    /\ file1 = None
    /\ files = <<Filename(Tickers[2])>>
    /\ Len(outbox) = 1
    /\ Len(outbox[1].attachments) = 1

(* C7: a Saturday run in which both tickers returned None opens no mail    *)
(* connection and sends nothing; a run sends only if some ticker produced  *)
(* a path, at most once, and only after both tickers have been processed.  *)
C7_NoFilesNoEmail ==
    /\ smtp \in {0, 1}
    /\ smtp = 1 =>
          /\ pc = "done"
          /\ Len(requests) = 2
          /\ file1 # None \/ file2 # None
          /\ files # <<>>
    /\ (pc = "done" /\ files = <<>>) => smtp = 0
    /\ \A i \in DOMAIN history :
          /\ history[i].emails \in {0, 1}
          /\ history[i].files = <<>> => history[i].emails = 0
          /\ history[i].emails = 1 => Len(history[i].requests) = 2
    /\ Len(outbox) <= Cardinality({i \in DOMAIN history : history[i].files # <<>>})

C7_Witness ==
    /\ Saturday
    /\ pc = "done"
    /\ Len(requests) = 2
    /\ file1 = None
    /\ file2 = None
    /\ files = <<>>
    /\ smtp = 0
    /\ outbox = <<>>

(* C10: the gate remembers nothing.  Every finished run that collected at  *)
(* least one report sent exactly one message, so n such runs leave n       *)
(* messages; what a run collected and saved is fixed by the provider       *)
(* answers of that run alone; and a report is always saved under the one   *)
(* name of its ticker, so the directory never holds more than one file per *)
(* ticker.  (A run that a report call aborts with an exception collects    *)
(* nothing and sends nothing.)                                             *)
C10_EveryRunSendsAgain ==
    /\ \A i \in DOMAIN history :
          LET h == history[i]
          IN  /\ h.emails = IF h.files # <<>> THEN 1 ELSE 0
              /\ h.saved = {Filename(h.requests[k].ticker) :
                               k \in {k \in DOMAIN h.requests :
                                         /\ ~h.requests[k].empty
                                         /\ ~(h.raised /\ k = Len(h.requests))}}
              /\ ~h.raised => h.files = Filter(<<Filename(Tickers[1]), Filename(Tickers[2])>>, h.saved)
    /\ Len(outbox) = Cardinality({i \in DOMAIN history : history[i].files # <<>>})
    /\ disk \subseteq ReportNames
    /\ Cardinality(disk) <= Len(Tickers)

C10_Witness ==
    /\ Len(history) >= 2
    /\ history[1].files # <<>>
    /\ history[2] = history[1]
    /\ Len(outbox) = 2
    /\ disk = {Filename(Tickers[1]), Filename(Tickers[2])}

----------------------------------------------------------------------------
(* Properties of weekly_report_with_plot, checked under SpecReport *)

Called == pc \in {"returned", "raised"}

IsWorkday(d) == Weekday(d) < 5

WorkdayRows == {i \in DOMAIN df : IsWorkday(df[i].date)}

(* The row of the response with the latest date among the rows in I *)
LatestOf(I) == CHOOSE i \in I : \A j \in I : df[j].date <= df[i].date

(* C2: on a Saturday the window asked of the provider starts on            *)
(* last_monday = today - (weekday + 7), ends on last_friday = last_monday  *)
(* + 4, and holds no Saturday or Sunday.                                   *)
C2_WindowIsMondayToFriday ==
    (Called /\ Saturday) =>
        LET q == requests[1]
            last_monday == today - (Weekday(today) + 7)
            last_friday == last_monday + 4
        IN  /\ q.start = last_monday
            /\ q.end - 1 = last_friday
            /\ \A d \in q.start..(q.end - 1) : IsWorkday(d)

(* C3: whatever the day, the week that is fetched is the most recently     *)
(* completed Monday-Friday period: its Friday is before today and no other *)
(* Monday-Friday period lies wholly between that Friday and today.         *)
C3_MostRecentCompletedWeek ==
    Called =>
        LET monday == requests[1].start
            friday == monday + 4
        IN  /\ Weekday(monday) = 0
            /\ friday < today
            /\ ~\E m \in (friday + 1)..today :
                   /\ Weekday(m) = 0
                   /\ m + 4 < today

(* C4: for a non-empty response whose rows all fall on Monday-Friday, the  *)
(* call returns a report whose table has one column per weekday with data, *)
(* in Monday-to-Friday order, each cell that day's close, and whose        *)
(* summary price is the close of the latest row, in whatever order the     *)
(* provider listed the rows.                                               *)
C4_ColumnsAreDaysWithData ==
    (Called /\ df # <<>> /\ WorkdayRows = DOMAIN df) =>
        LET present == {Weekday(df[i].date) : i \in DOMAIN df}
            Position(wd) == Cardinality({v \in present : v <= wd})
        IN  /\ pc = "returned"
            /\ ret = Filename(ticker_symbol)
            /\ Len(figure.columns) = Cardinality(present)
            /\ Len(figure.cells) = Cardinality(present)
            /\ \A i \in DOMAIN df :
                  /\ figure.columns[Position(Weekday(df[i].date))]
                        = GREEK_DAYS[Weekday(df[i].date)]
                  /\ figure.cells[Position(Weekday(df[i].date))] = df[i].close
            /\ figure.last_close = df[LatestOf(DOMAIN df)].close

C4_Witness ==
    /\ pc = "returned"
    /\ Len(df) = 3
    /\ Weekday(df[1].date) = 4
    /\ Weekday(df[2].date) = 0
    /\ Weekday(df[3].date) = 2
    /\ df[1].close # df[3].close
    /\ figure.columns = <<"Δευτέρα", "Τετάρτη", "Παρασκευή">>
    /\ figure.cells = <<df[2].close, df[3].close, df[1].close>>
    /\ figure.last_close = df[1].close

(* C9: a row dated Saturday or Sunday appears nowhere in the report: it    *)
(* gives no table column, no chart point or label, and its close is never  *)
(* the summary price, which is the close of the latest Monday-Friday row.  *)
C9_WeekendRowsExcluded ==
    (pc = "returned" /\ ret # None) =>
        /\ Len(figure.columns) = Cardinality(WorkdayRows)
        /\ Len(figure.points) = Cardinality(WorkdayRows)
        /\ \A k \in DOMAIN figure.labels : IsWorkday(figure.labels[k].date)
        /\ WorkdayRows # {} =>
               figure.last_close = df[LatestOf(WorkdayRows)].close

----------------------------------------------------------------------------
(* Properties of send_email_with_reports, checked under SpecMail *)

Existing == {i \in DOMAIN files : files[i] \in disk}

Missing == DOMAIN files \ Existing

IsBasenameOf(b, path) ==
    /\ "/" \notin Range(b)
    /\ \E k \in 0..Len(path) :
          /\ SubSeq(path, k + 1, Len(path)) = b
          /\ k = 0 \/ path[k] = "/"

FileWarnings == SelectSeq(log, LAMBDA l : l.tag = "file not found")

(* C6: the message sent carries one attachment for every path of the list  *)
(* that exists, in the order of the list and named by the path's basename, *)
(* and none for a path that does not exist; every missing path is reported *)
(* by a warning, and the message is sent all the same.                     *)
C6_OneAttachmentPerExistingPath ==
    pc = "returned" =>
        /\ Len(outbox) = 1
        /\ LET att == outbox[1].attachments
               Rank(S, i) == Cardinality({j \in S : j <= i})
           IN  /\ Len(att) = Cardinality(Existing)
               /\ \A i \in Existing : IsBasenameOf(att[Rank(Existing, i)], files[i])
               /\ Len(FileWarnings) = Cardinality(Missing)
               /\ \A i \in Missing : FileWarnings[Rank(Missing, i)].about = files[i]
        /\ log[Len(log)].tag = "email sent"

C6_Witness ==
    /\ pc = "returned"
    /\ Len(files) = 2
    /\ files[1] \notin disk
    /\ files[2] \in disk
    /\ outbox[1].attachments = <<Basename(files[2])>>
    /\ Len(FileWarnings) = 1

(* C8 as stated: called with paths none of which exists, the mailer opens  *)
(* no connection and sends no message.                                     *)
C8_NoSendWithoutAttachments ==
    (pc = "returned" /\ Existing = {}) => (smtp = 0 /\ outbox = <<>>)

(* C8 as amended: every call of the mailer opens one connection and sends  *)
(* one message, whether or not any attachment was added; when none of the  *)
(* paths exists the message sent has no attachment.                        *)
C8_AlwaysSendsOneMessage ==
    pc = "returned" =>
        /\ smtp = 1
        /\ Len(outbox) = 1
        /\ Existing = {} <=> outbox[1].attachments = <<>>

C8_Witness ==
    /\ pc = "returned"
    /\ files # <<>>
    /\ Existing = {}
    /\ smtp = 1
    /\ Len(outbox) = 1
    /\ outbox[1].attachments = <<>>

====
